---- MODULE Spec2Model ----
(***************************************************************************)
(* The refresh loop and the signal scorer of spx_dashboard.py.            *)
(*                                                                         *)
(* Numbers.  Prices, EMA, ATR and forecast values are integers (index     *)
(* points).  Every float comparison of the source is stated without       *)
(* division: for Close > 0,                                                *)
(*     ATR / Close > 0.005          <=>  1000 * ATR > 5 * Close           *)
(*     abs((c - p) / p) < 0.0003    <=>  10000 * |c - p| < 3 * p          *)
(* risk_tolerance is kept in tenths (the slider 0.5 .. 2.0 is 5 .. 20),   *)
(* and the three price levels are kept in twentieths of a point, so that  *)
(* ATR * risk_tolerance and ATR * risk_tolerance * 0.5 stay integers.     *)
(* A pandas NaN is the value NaN below: every ordering comparison with it *)
(* is false and every sum with it is NaN.                                 *)
(*                                                                         *)
(* Frames.  A DataFrame is a record holding its Close column as a         *)
(* sequence and, once compute_indicators has run, the indicator columns   *)
(* at the latest bar (the only row whose indicators the code reads).      *)
(***************************************************************************)
EXTENDS Integers, Sequences, FiniteSets

VARIABLES risk_tolerance, client, cycle, pc, df, forecast, result,
          rendered, steps, exc

vars == <<risk_tolerance, client, cycle, pc, df, forecast, result,
          rendered, steps, exc>>

\* ---------------------------------------------------------------- bounds
\* Most bars a fetch returns.
MaxBars == 2
\* Iterations of the main loop (range(1000) in the source).
MaxCycles == 2

\* ---------------------------------------------------------------- values
None == [k |-> "None"]
NaN == [k |-> "nan"]
Num(x) == [k |-> "num", v |-> x]
\* A name not bound yet in this cycle (every one is assigned before it is read).
Unset == [k |-> "unset"]

IsNum(a) == a.k = "num"
\* a > b on floats: False when either side is NaN.
GT(a, b) == IsNum(a) /\ IsNum(b) /\ a.v > b.v

Abs(x) == IF x < 0 THEN -x ELSE x

\* Inputs the model draws.
Closes == {9997, 10000, 10003}
ATRs == {NaN, Num(20), Num(50), Num(60)}
EMAs == {<<Num(10005), Num(10000)>>, <<Num(9995), Num(10000)>>,
         <<Num(10000), Num(10000)>>, <<NaN, NaN>>}
MACDs == {NaN, Num(-2), Num(0), Num(2)}
RSIs == {NaN, Num(25), Num(75)}
Yhats == {9990, 10010}
RiskTolerances == {5, 10, 20}

CloseSeqs == UNION {[1..n -> Closes] : n \in 1..MaxBars}

Frame(closes) == [k |-> "frame", Close |-> closes]
Forecast(y) == [k |-> "frame", yhat |-> y]

\* ------------------------------------------------------------- the scorer
DO_NOT_TRADE == "DO NOT TRADE"
LONG == "LONG"
LONG_CAUTIOUS == "LONG (Cautious)"
SHORT == "SHORT"
SHORT_CAUTIOUS == "SHORT (Cautious)"

Raise(e) == [raised |-> TRUE, exc |-> e]
Return(signal, conf, entry, target, invalidation) ==
    [raised |-> FALSE, signal |-> signal, conf |-> conf, entry |-> entry,
     target |-> target, invalidation |-> invalidation]

\* df.tail(5)
Tail5(d) ==
    LET n == Len(d.Close)
        first == IF n > 5 THEN n - 4 ELSE 1
    IN [d EXCEPT !.Close = SubSeq(d.Close, first, n)]

\* df.iloc[:i]
Prefix(d, i) == [d EXCEPT !.Close = SubSeq(d.Close, 1, i)]

\* volatility_high = latest["ATR"] / latest["Close"] > 0.005
VolatilityHigh(w) ==
    IsNum(w.ATR) /\ 1000 * w.ATR.v > 5 * w.Close[Len(w.Close)]

\* abs(recent_return) < 0.0003
Choppy(w) ==
    LET n == Len(w.Close)
    IN 10000 * Abs(w.Close[n] - w.Close[n - 1]) < 3 * w.Close[n - 1]

\* The gate with "and" in place of "or".
DoNotTradeAnd(w) == VolatilityHigh(w) /\ Choppy(w)

\* do_not_trade = volatility_high or abs(recent_return) < 0.0003
DoNotTrade(w) == VolatilityHigh(w) \/ Choppy(w)

\* bool(forecast): a DataFrame has no truth value, pandas raises ValueError.
TruthRaises(fc) == fc.k = "frame"

\* The forecast term with the branches exchanged: an absent forecast adds +1.
ForecastTermAbsentBullish(fc, w) ==
    IF fc.k = "frame" /\ fc.yhat <= w.Close[Len(w.Close)] THEN -1 ELSE 1

\* 1 if forecast and forecast['yhat'].iloc[-1] > latest["Close"] else -1
ForecastTerm(fc, w) ==
    IF fc.k = "frame" /\ fc.yhat > w.Close[Len(w.Close)] THEN 1 ELSE -1

Score(w, fc) ==
    LET n == Len(w.Close)
    IN (IF GT(w.EMA_Fast, w.EMA_Slow) THEN 1 ELSE -1)
       + (IF w.Close[n] > w.Close[n - 1] THEN 1 ELSE -1)
       + (IF GT(w.MACD, Num(0)) THEN 1 ELSE -1)
       + ForecastTerm(fc, w)

\* The label mapping with the two bullish labels exchanged.
LabelOfSwapped(score) ==
    IF score >= 3 THEN <<LONG_CAUTIOUS, "Medium">>
    ELSE IF score >= 1 THEN <<LONG, "High">>
    ELSE IF score <= -3 THEN <<SHORT, "High">>
    ELSE <<SHORT_CAUTIOUS, "Medium">>

LabelOf(score) ==
    IF score >= 3 THEN <<LONG, "High">>
    ELSE IF score >= 1 THEN <<LONG_CAUTIOUS, "Medium">>
    ELSE IF score <= -3 THEN <<SHORT, "High">>
    ELSE <<SHORT_CAUTIOUS, "Medium">>

\* "LONG" in signal
IsLong(signal) == signal \in {LONG, LONG_CAUTIOUS}

\* entry, target, invalidation, in twentieths of a point.
Levels(w, signal) ==
    LET entry == 20 * w.Close[Len(w.Close)]
        sign == IF IsLong(signal) THEN 1 ELSE -1
    IN IF IsNum(w.ATR)
       THEN <<Num(entry), Num(entry + sign * 2 * w.ATR.v * risk_tolerance),
              Num(entry - sign * w.ATR.v * risk_tolerance)>>
       ELSE <<Num(entry), NaN, NaN>>

GenerateSignals(w, fc) ==
    IF Len(w.Close) < 2 THEN Raise("IndexError")
    ELSE IF DoNotTrade(w)
    THEN Return(DO_NOT_TRADE, "High volatility or choppy", None, None, None)
    ELSE IF TruthRaises(fc) THEN Raise("ValueError")
    ELSE LET l == LabelOf(Score(w, fc))
             lv == Levels(w, l[1])
         IN Return(l[1], l[2], lv[1], lv[2], lv[3])

\* backtest_strategy(df): the first call of its loop is on df.iloc[:1].
BacktestRaises(d) ==
    Len(d.Close) >= 2 /\ GenerateSignals(Prefix(d, 1), None).raised

\* -------------------------------------------------------------- the loop
Init ==
    /\ risk_tolerance \in RiskTolerances
    /\ client \in BOOLEAN
    /\ cycle = 0
    /\ pc = "fetch"
    /\ df = Unset
    /\ forecast = Unset
    /\ result = Unset
    /\ rendered = {}
    /\ steps = <<>>
    /\ exc = "none"

\* fetch_data: Polygon when a client exists, yfinance as the fallback; None
\* when yfinance fails or returns an empty frame.
FetchData ==
    /\ pc = "fetch"
    /\ \E polygonOk \in BOOLEAN, got \in {None} \cup {Frame(c) : c \in CloseSeqs} :
         /\ (polygonOk /\ client) => got # None
         /\ (~client) => ~polygonOk
         /\ df' = got
         /\ rendered' = IF client /\ ~polygonOk THEN {"Polygon data fetch failed"}
                        ELSE {}
    /\ steps' = <<"fetch">>
    /\ pc' = "check"
    /\ UNCHANGED <<risk_tolerance, client, cycle, forecast, result, exc>>

\* df.empty
Empty(d) == d.k = "frame" /\ Len(d.Close) = 0

\* The no-data branch without its warning.
NoDataSilent ==
    /\ pc = "check"
    /\ (df = None \/ Empty(df))
    /\ steps' = Append(steps, "nodata")
    /\ pc' = "sleep"
    /\ UNCHANGED <<risk_tolerance, client, cycle, df, forecast, result, rendered, exc>>

\* if df is None or df.empty: warning, sleep, continue
NoData ==
    /\ pc = "check"
    /\ (df = None \/ Empty(df))
    /\ rendered' = rendered \cup {"No data. Retrying..."}
    /\ steps' = Append(steps, "nodata")
    /\ pc' = "sleep"
    /\ UNCHANGED <<risk_tolerance, client, cycle, df, forecast, result, exc>>

\* compute_indicators: the library values of the latest bar.
ComputeIndicators ==
    /\ pc = "check"
    /\ ~(df = None \/ Empty(df))
    /\ \E atr \in ATRs, ema \in EMAs, macd \in MACDs, rsi \in RSIs :
         df' = [k |-> "frame", Close |-> df.Close, EMA_Fast |-> ema[1],
                EMA_Slow |-> ema[2], ATR |-> atr, RSI |-> rsi, MACD |-> macd]
    /\ steps' = Append(steps, "indicators")
    /\ pc' = "forecast"
    /\ UNCHANGED <<risk_tolerance, client, cycle, forecast, result, rendered, exc>>

\* forecast_future: any exception of the library is caught and gives None.
ForecastFuture ==
    /\ pc = "forecast"
    /\ forecast' \in {None} \cup {Forecast(y) : y \in Yhats}
    /\ steps' = Append(steps, "forecast")
    /\ pc' = "score"
    /\ UNCHANGED <<risk_tolerance, client, cycle, df, result, rendered, exc>>

\* signal, conf, entry, target, invalidation = generate_signals(df.tail(5), forecast)
Signals ==
    /\ pc = "score"
    /\ LET r == GenerateSignals(Tail5(df), forecast)
       IN /\ result' = r
          /\ IF r.raised
             THEN pc' = "raised" /\ exc' = r.exc
             ELSE pc' = "dashboard" /\ exc' = exc
    /\ steps' = Append(steps, "score")
    /\ UNCHANGED <<risk_tolerance, client, cycle, df, forecast, rendered>>

\* Dashboard tab: metrics, trade levels when entry is truthy, chart.
DashboardTab ==
    /\ pc = "dashboard"
    /\ rendered' = rendered \cup {"Dashboard"}
                   \cup (IF result.entry # None THEN {"Entry, Target, Invalidation"} ELSE {})
                   \cup (IF forecast # None THEN {"Forecast trace"} ELSE {})
    /\ steps' = Append(steps, "render")
    /\ pc' = "backtest"
    /\ UNCHANGED <<risk_tolerance, client, cycle, df, forecast, result, exc>>

\* Backtest tab: backtest_strategy(df) when the button was pressed.
BacktestTab ==
    /\ pc = "backtest"
    /\ \E pressed \in BOOLEAN :
         IF pressed /\ BacktestRaises(df)
         THEN /\ pc' = "raised"
              /\ exc' = "IndexError"
              /\ rendered' = rendered
         ELSE /\ pc' = "predictions"
              /\ exc' = exc
              /\ rendered' = IF pressed THEN rendered \cup {"Backtest"} ELSE rendered
    /\ UNCHANGED <<risk_tolerance, client, cycle, df, forecast, result, steps>>

\* Predictions tab and the caption.
PredictionsTab ==
    /\ pc = "predictions"
    /\ rendered' = rendered \cup {IF forecast # None THEN "Next 1-Hour Forecast"
                                  ELSE "Forecast unavailable."}
    /\ pc' = "sleep"
    /\ UNCHANGED <<risk_tolerance, client, cycle, df, forecast, result, steps, exc>>

\* time.sleep(refresh_interval), then the next iteration of range(MaxCycles).
\* df, forecast and the signal tuple are rebound before the next cycle reads
\* them, so they are dropped here.
Sleep ==
    /\ pc = "sleep"
    /\ cycle' = cycle + 1
    /\ pc' = IF cycle + 1 < MaxCycles THEN "fetch" ELSE "done"
    /\ steps' = Append(steps, "sleep")
    /\ df' = Unset
    /\ forecast' = Unset
    /\ result' = Unset
    /\ UNCHANGED <<risk_tolerance, client, rendered, exc>>

Next ==
    \/ FetchData
    \/ NoData
    \/ ComputeIndicators
    \/ ForecastFuture
    \/ Signals
    \/ DashboardTab
    \/ BacktestTab
    \/ PredictionsTab
    \/ Sleep

Spec == Init /\ [][Next]_vars

\* ------------------------------------------------------------ the claims
\* The cycle has called generate_signals: result, df and forecast are the
\* call's outcome and arguments.
Called == result # Unset

Returned == Called /\ ~result.raised

LatestClose == df.Close[Len(df.Close)]

PrevClose == df.Close[Len(df.Close) - 1]

Directional == {LONG, LONG_CAUTIOUS, SHORT, SHORT_CAUTIOUS}

\* The fetched frame has at least two bars and every indicator of its latest
\* bar is defined.
WellDefined ==
    /\ df.k = "frame"
    /\ "ATR" \in DOMAIN df
    /\ Len(df.Close) >= 2
    /\ IsNum(df.ATR) /\ IsNum(df.EMA_Fast) /\ IsNum(df.EMA_Slow)
    /\ IsNum(df.MACD) /\ IsNum(df.RSI)

\* C1: on every input of at least two bars on which a gate fires (latest
\* ATR / latest Close > 0.005, or |one-step return| < 0.0003) the result is
\* the DO NOT TRADE label with entry, target and invalidation None, whatever
\* the EMA, MACD, RSI and forecast values; no score-derived label is returned.
C1_GatedIsDoNotTrade ==
    (/\ Called
     /\ Len(df.Close) >= 2
     /\ \/ (df.ATR.k = "num" /\ 1000 * df.ATR.v > 5 * LatestClose)
        \/ 10000 * Abs(LatestClose - PrevClose) < 3 * PrevClose)
    => /\ ~result.raised
       /\ result.signal = DO_NOT_TRADE
       /\ result.signal \notin Directional
       /\ result.entry = None
       /\ result.target = None
       /\ result.invalidation = None

\* A gated input with bullish EMA, MACD and an available bullish forecast.
C1_Witness ==
    /\ Returned
    /\ result.signal = DO_NOT_TRADE
    /\ forecast.k = "frame"
    /\ forecast.yhat > LatestClose
    /\ GT(df.EMA_Fast, df.EMA_Slow)
    /\ GT(df.MACD, Num(0))
    /\ LatestClose > PrevClose

\* The mirror image of a window: the one-step return, the EMA difference and
\* the MACD histogram change sign (the previous close is kept).
Mirror(w) ==
    LET n == Len(w.Close)
    IN [w EXCEPT !.Close = [w.Close EXCEPT ![n] = 2 * w.Close[n - 1] - w.Close[n]],
                 !.EMA_Fast = w.EMA_Slow,
                 !.EMA_Slow = w.EMA_Fast,
                 !.MACD = IF IsNum(w.MACD) THEN Num(-w.MACD.v) ELSE w.MACD]

\* The forecast with forecast-minus-close of opposite sign.
MirrorForecast(fc, w) ==
    LET n == Len(w.Close)
    IN IF fc.k = "frame"
       THEN Forecast(2 * w.Close[n - 1] - w.Close[n] - (fc.yhat - w.Close[n]))
       ELSE fc

Flip(signal) ==
    CASE signal = LONG -> SHORT
      [] signal = LONG_CAUTIOUS -> SHORT_CAUTIOUS
      [] signal = SHORT -> LONG
      [] signal = SHORT_CAUTIOUS -> LONG_CAUTIOUS
      [] OTHER -> signal

\* C2: sign symmetry: on an ungated input, reversing the sign of every
\* contributing input reverses the label (LONG <-> SHORT, LONG (Cautious)
\* <-> SHORT (Cautious)).  Stated on the inputs whose signs are all defined
\* and nonzero and whose mirror image is ungated too.
C2_SignSymmetry ==
    (/\ Returned
     /\ result.signal \in Directional
     /\ WellDefined
     /\ df.EMA_Fast # df.EMA_Slow
     /\ df.MACD # Num(0)
     /\ ~DoNotTrade(Mirror(Tail5(df))))
    => LET m == GenerateSignals(Mirror(Tail5(df)),
                                MirrorForecast(forecast, Tail5(df)))
       IN ~m.raised /\ m.signal = Flip(result.signal)

Rank(signal) ==
    CASE signal = SHORT -> 0
      [] signal = SHORT_CAUTIOUS -> 1
      [] signal = "NEUTRAL" -> 2
      [] signal = LONG_CAUTIOUS -> 3
      [] signal = LONG -> 4

\* C3: the label mapping is monotone: under SHORT < SHORT (Cautious) <
\* NEUTRAL < LONG (Cautious) < LONG, for scores s1 <= s2 in -4..4 the label
\* of s1 is equal to or less bullish than the label of s2; in particular the
\* label a call returns is no more bullish than that of any higher score and
\* no less bullish than that of any lower one.
C3_LabelMonotone ==
    /\ \A s1, s2 \in -4..4 :
         s1 <= s2 => Rank(LabelOf(s1)[1]) <= Rank(LabelOf(s2)[1])
    /\ (Returned /\ result.signal \in Directional)
       => \A s \in -4..4 :
            /\ s >= Score(Tail5(df), forecast)
               => Rank(LabelOf(s)[1]) >= Rank(result.signal)
            /\ s <= Score(Tail5(df), forecast)
               => Rank(LabelOf(s)[1]) <= Rank(result.signal)

\* A call that scored +2 and returned LONG (Cautious).
C3_Witness ==
    /\ Returned
    /\ result.signal = LONG_CAUTIOUS
    /\ Score(Tail5(df), forecast) = 2

\* C4: whenever price levels are returned, the target lies on the trade's
\* side of entry, the invalidation on the opposite side, and the target is
\* strictly farther from entry than the invalidation, for every ATR value of
\* the latest bar and every risk_tolerance of the slider.
C4_TargetBeyondStop ==
    (Returned /\ result.entry # None)
    => /\ IsNum(result.target)
       /\ IsNum(result.invalidation)
       /\ IF IsLong(result.signal)
          THEN /\ result.target.v > result.entry.v
               /\ result.invalidation.v < result.entry.v
          ELSE /\ result.target.v < result.entry.v
               /\ result.invalidation.v > result.entry.v
       /\ Abs(result.target.v - result.entry.v)
            > Abs(result.invalidation.v - result.entry.v)

\* C5: a call on a window of fewer than two bars, or whose latest ATR, EMA
\* or MACD is undefined, neither raises nor returns a directional label with
\* price levels; no IndexError of such a call (backtest_strategy's df.iloc[:1]
\* included) ends the cycle.
C5_InsufficientDataSignaled ==
    /\ exc # "IndexError"
    /\ (/\ Called
        /\ \/ Len(df.Close) < 2
           \/ ~IsNum(df.ATR)
           \/ ~IsNum(df.EMA_Fast)
           \/ ~IsNum(df.EMA_Slow)
           \/ ~IsNum(df.MACD))
       => /\ ~result.raised
          /\ ~(result.signal \in Directional /\ result.entry # None)

\* C6: a cycle whose fetch gave None or an empty frame shows the "No data.
\* Retrying..." warning, computes no indicators, forecast or signal, renders
\* no dashboard, sleeps once, and the loop then goes on to a fresh fetch
\* (while iterations remain).
C6_NoDataCycle ==
    /\ [](pc = "sleep" /\ df = None
          => /\ "No data. Retrying..." \in rendered
             /\ steps = <<"fetch", "nodata">>
             /\ forecast = Unset
             /\ result = Unset
             /\ rendered \cap {"Dashboard", "Entry, Target, Invalidation", "Backtest",
                               "Next 1-Hour Forecast", "Forecast unavailable."} = {})
    /\ [][(pc = "check" /\ (df = None \/ Empty(df)))
          => (pc' = "sleep" /\ df' = df /\ cycle' = cycle)]_vars
    /\ [][(pc = "sleep" /\ df = None)
          => /\ cycle' = cycle + 1
             /\ pc' = (IF cycle' < MaxCycles THEN "fetch" ELSE "done")
             /\ steps' = <<"fetch", "nodata", "sleep">>]_vars
    /\ [][(pc = "fetch") => (pc' = "check" /\ steps' = <<"fetch">>)]_vars

\* A no-data cycle has slept and the next cycle is about to fetch.
C6_Witness ==
    /\ pc = "fetch"
    /\ cycle = 1
    /\ steps = <<"fetch", "nodata", "sleep">>
    /\ "No data. Retrying..." \in rendered

\* C7: a failure of the forecasting library is isolated: the cycle in which
\* forecast_future gave None still computes a signal, renders the Dashboard
\* tab and shows "Forecast unavailable." in the Predictions tab.  Stated on
\* the cycles whose fetch returned at least two bars with defined indicators.
C7_ForecastFailureIsolated ==
    (forecast = None /\ pc \in {"sleep", "raised"} /\ WellDefined)
    => /\ exc = "none"
       /\ Returned
       /\ "Dashboard" \in rendered
       /\ "Forecast unavailable." \in rendered

\* C8: no outcome is fatal to the loop: whatever the fetch, forecast and gate
\* outcomes, no cycle ends in an uncaught exception, and a cycle that reaches
\* its sleep ran fetch, compute indicators, score, render in that order (or
\* was a no-data cycle).  The first part is stated on the cycles whose fetch
\* returned at least two bars with defined indicators.
C8_NoFatalOutcome ==
    /\ WellDefined => (exc = "none" /\ pc # "raised")
    /\ pc = "sleep"
       => steps \in {<<"fetch", "nodata">>,
                     <<"fetch", "indicators", "forecast", "score", "render">>}

\* C9: every returned label is in {DO_NOT_TRADE, SHORT, SHORT_CAUTIOUS,
\* NEUTRAL, LONG_CAUTIOUS, LONG} and every returned confidence in
\* {None, Medium, High}, on gated and ungated inputs.  Stated on windows of
\* at least two bars with defined indicators.
C9_ClosedSets ==
    (Returned /\ WellDefined)
    => /\ result.signal \in Directional \cup {DO_NOT_TRADE, "NEUTRAL"}
       /\ result.conf \in {"None", "Medium", "High"}

\* C10: with an absent forecast (None) the forecast term of the score is -1:
\* the score is the three other terms minus one, at most +2, and LONG with
\* High confidence is never returned.
C10_AbsentForecastIsBearish ==
    (Returned /\ forecast = None /\ result.signal # DO_NOT_TRADE)
    => LET s == (IF df.EMA_Fast.k = "num" /\ df.EMA_Slow.k = "num"
                    /\ df.EMA_Fast.v > df.EMA_Slow.v THEN 1 ELSE -1)
                + (IF LatestClose > PrevClose THEN 1 ELSE -1)
                + (IF df.MACD.k = "num" /\ df.MACD.v > 0 THEN 1 ELSE -1)
                - 1
       IN /\ s <= 2
          /\ Score(Tail5(df), forecast) = s
          /\ <<result.signal, result.conf>> = LabelOf(s)
          /\ ~(result.signal = LONG /\ result.conf = "High")

\* With no forecast, SHORT with High confidence is returned.
C10_Witness ==
    /\ Returned
    /\ forecast = None
    /\ result.signal = SHORT
    /\ result.conf = "High"

====
